---- MODULE Spec2Model ----
(***************************************************************************)
(* Model of the earthquake viewer's fetch / render cycle                   *)
(* (loadEarthquakeData and what it calls: fetchEarthquakeData,             *)
(* displayEarthquakes, addEarthquakeMarkers, showError, setLoading,        *)
(* parseCoordinate, getScaleClass, getMarkerColor).                        *)
(*                                                                         *)
(* The page runs on the browser's event loop: a handler runs to its next   *)
(* await (or to its end) without interleaving.  Each action below is one   *)
(* such run.  The suspension points of a cycle are the two awaits of       *)
(* fetchEarthquakeData (fetch, response.json) and the 10 ms timer between  *)
(* marker batches.                                                         *)
(*                                                                         *)
(* JavaScript numbers are kept as integers counting tenths (fixed point,   *)
(* one decimal): N(60) is 60, D(5, 8) is 5.8.                              *)
(***************************************************************************)
EXTENDS Integers, Sequences, FiniteSets, TLC

VARIABLES
    loading,          \* loading.style.display = 'block'
    fetchBtnDisabled, \* fetchBtn.disabled
    error,            \* the error element: display, textContent, and which call showed it
    timers,           \* pending 5000 ms dismissal timeouts, oldest first
    earthquakeList,   \* children of the list element (cards or the no-data placeholder)
    markersLayer,     \* layers of the marker feature group, in insertion order
    mapView,          \* the map's viewport
    calls,            \* every invocation of loadEarthquakeData so far, by number
    requests,         \* number of fetch() calls issued
    batchSize,        \* BATCH_SIZE of addEarthquakeMarkers
    arg,              \* a function examined on its own: its name and argument
    ret               \* what that function returned, once it is applied

vars == <<loading, fetchBtnDisabled, error, timers, earthquakeList, markersLayer,
          mapView, calls, requests, batchSize, arg, ret>>

----
\* Bounds of the model.

\* Invocations of loadEarthquakeData in one run, the page-load call included.
MaxTriggers == 2
\* Longest record list a response holds.
MaxLen == 3
\* Largest batch size tried besides the program's own.
MaxBatch == 2
\* Date inputs are the days 1..MaxDate, or an unparseable value.
MaxDate == 2

\* Largest whole number of degrees of a coordinate given to parseCoordinate.
MaxDeg == 141
\* Largest intensity code given to the translation functions.
MaxCode == 71

\* Program constants.
BATCH_SIZE == 50

----
\* JavaScript values.

Undef == [undef |-> TRUE]
Null == [null |-> TRUE]
NaN == [nan |-> TRUE]
Num(n) == [num |-> n]
N(i) == Num(10 * i)
D(i, d) == Num(10 * i + d)
Str(cs) == [str |-> cs]
Text(s) == [text |-> s]
Obj(fields) == [obj |-> fields]

IsNum(v) == DOMAIN v = {"num"}
IsStr(v) == DOMAIN v = {"str"}
IsText(v) == DOMAIN v = {"text"}
IsObj(v) == DOMAIN v = {"obj"}

\* ToBoolean.
Truthy(v) ==
    IF IsNum(v) THEN v.num # 0
    ELSE IF IsStr(v) THEN v.str # <<>>
    ELSE IF IsText(v) THEN v.text # ""
    ELSE IsObj(v)

\* x >= k for a numeric literal k: false for undefined and NaN, null counts as 0.
Geq(v, k) ==
    IF IsNum(v) THEN v.num >= k.num
    ELSE IF v = Null THEN 0 >= k.num
    ELSE FALSE

\* Unary minus.
Neg(v) == IF IsNum(v) THEN Num(-v.num) ELSE NaN

----
\* Intensity code translation.  The labels are written in ASCII: unknown,
\* 5-lower, 5-upper, 6-lower and 6-upper stand for the Japanese strings of the
\* source (fumei, 5-jaku, 5-kyo, 6-jaku, 6-kyo).

scaleMap ==
    [k \in {-10, 100, 200, 300, 400, 450, 500, 550, 600, 700} |->
        CASE k = -10 -> "unknown"
          [] k = 100 -> "1"
          [] k = 200 -> "2"
          [] k = 300 -> "3"
          [] k = 400 -> "4"
          [] k = 450 -> "5-lower"
          [] k = 500 -> "5-upper"
          [] k = 550 -> "6-lower"
          [] k = 600 -> "6-upper"
          [] k = 700 -> "7"]

\* scaleMap[x.toString()] || unknown, for a number x.
ScaleLabel(v) == IF v.num \in DOMAIN scaleMap THEN scaleMap[v.num] ELSE "unknown"

getScaleClass(scale) ==
    IF Geq(scale, N(50)) THEN "high"
    ELSE IF Geq(scale, N(30)) THEN "medium"
    ELSE "low"

\* Mutant of getMarkerColor: red starts at 5-lower (45), not at 5-upper (50).
getMarkerColorFrom45(scale) ==
    IF Geq(scale, N(45)) THEN "#d32f2f"
    ELSE IF Geq(scale, N(30)) THEN "#f57c00"
    ELSE "#388e3c"

getMarkerColor(scale) ==
    IF Geq(scale, N(50)) THEN "#d32f2f"
    ELSE IF Geq(scale, N(30)) THEN "#f57c00"
    ELSE "#388e3c"

----
\* Coordinate parsing.

DigitChars == <<"0", "1", "2", "3", "4", "5", "6", "7", "8", "9">>
IsDigit(c) == \E i \in 1..10 : DigitChars[i] = c
DigitValue(c) == (CHOOSE i \in 1..10 : DigitChars[i] = c) - 1

RECURSIVE DigitPrefix(_)
DigitPrefix(s) ==
    IF s = <<>> \/ ~IsDigit(Head(s)) THEN <<>>
    ELSE <<Head(s)>> \o DigitPrefix(Tail(s))

RECURSIVE DigitsToInt(_)
DigitsToInt(ds) ==
    IF ds = <<>> THEN 0
    ELSE 10 * DigitsToInt(SubSeq(ds, 1, Len(ds) - 1)) + DigitValue(ds[Len(ds)])

RECURSIVE SkipSpace(_)
SkipSpace(s) == IF s # <<>> /\ Head(s) = " " THEN SkipSpace(Tail(s)) ELSE s

\* parseFloat: leading blanks, a sign, digits, a fraction; the longest such prefix.
\* The value keeps the first fractional digit (the model's numbers are tenths).
parseFloat(s) ==
    LET t == SkipSpace(s)
        neg == t # <<>> /\ Head(t) = "-"
        body == IF t # <<>> /\ Head(t) \in {"-", "+"} THEN Tail(t) ELSE t
        ip == DigitPrefix(body)
        rest == SubSeq(body, Len(ip) + 1, Len(body))
        fp == IF rest # <<>> /\ Head(rest) = "." THEN DigitPrefix(Tail(rest)) ELSE <<>>
        mag == 10 * DigitsToInt(ip) + (IF fp = <<>> THEN 0 ELSE DigitValue(fp[1]))
    IN  IF ip = <<>> /\ fp = <<>> THEN NaN
        ELSE Num(IF neg THEN -mag ELSE mag)

\* coord.replace(/[NSEW]/g, '')
StripCompass(cs) == SelectSeq(cs, LAMBDA c : c \notin {"N", "S", "E", "W"})

Includes(cs, c) == \E i \in 1..Len(cs) : cs[i] = c

\* Mutant of parseCoordinate: the sign of S and W is not applied.
parseCoordinateUnsigned(coord) ==
    IF IsNum(coord) THEN coord
    ELSE IF IsStr(coord) THEN parseFloat(StripCompass(coord.str))
    ELSE Null

parseCoordinate(coord) ==
    IF IsNum(coord) THEN coord
    ELSE IF IsStr(coord) THEN
        LET value == parseFloat(StripCompass(coord.str))
            isNegative == Includes(coord.str, "S") \/ Includes(coord.str, "W")
        IN  IF isNegative THEN Neg(value) ELSE value
    ELSE Null

----
\* Feed records.  A record is [earthquake |-> e]; e is Undef or an object with
\* time, hypocenter and maxScale; hypocenter is Undef or an object with name,
\* latitude, longitude, magnitude and depth.

Rec(time, name, lat, lng, mag, depth, maxScale) ==
    [earthquake |-> Obj([
        time |-> time,
        hypocenter |-> Obj([name |-> name, latitude |-> lat, longitude |-> lng,
                            magnitude |-> mag, depth |-> depth]),
        maxScale |-> maxScale])]

\* The record of the feed documentation's example.
RecNoto ==
    Rec(Text("2025/01/15 09:30:00"), Text("Noto"), D(37, 5), D(137, 3), D(5, 8), N(10), N(60))
\* A second plottable record.
RecTokyo ==
    Rec(Text("2025/01/14 21:05:00"), Text("Tokyo Bay"), D(35, 6), D(139, 9), D(4, 1), N(70), N(30))
\* Zero coordinates and unknown depth: listed, not plotted.
RecNoCoord ==
    Rec(Text("2025/01/13 03:12:00"), Text("Offshore"), N(0), N(0), D(3, 2), N(-1), N(10))
\* Plottable coordinates, no maxScale.
RecNoScale ==
    Rec(Text("2025/01/12 11:40:00"), Text("Kanto"), D(36, 0), D(140, 1), D(2, 9), N(20), Undef)

\* The feed's history, newest first (order=1).  One event was issued twice.
Feed == <<RecNoto, RecNoto, RecTokyo, RecNoCoord, RecNoScale>>

\* The record lists a response body can hold: the date range of a query selects
\* a run of the feed's history, of at most MaxLen records, or nothing.
DataLists ==
    {<<>>} \cup
    {SubSeq(Feed, w[1], w[2]) :
        w \in {v \in (1..Len(Feed)) \X (1..Len(Feed)) :
                  v[1] <= v[2] /\ v[2] < v[1] + MaxLen}}

----
\* Text pieces of the rendered HTML.  A piece of text is a sequence of strings.

Abs(n) == IF n < 0 THEN -n ELSE n

\* x.toFixed(1) for a number x.
ToFixed1(v) ==
    (IF v.num < 0 THEN <<"-">> ELSE <<>>)
        \o <<ToString(Abs(v.num) \div 10), ".", ToString(Abs(v.num) % 10)>>

\* `${x}` for a number x.
NumText(v) ==
    (IF v.num < 0 THEN <<"-">> ELSE <<>>)
        \o <<ToString(Abs(v.num) \div 10)>>
        \o (IF Abs(v.num) % 10 = 0 THEN <<>> ELSE <<".", ToString(Abs(v.num) % 10)>>)

\* `${x}` for any value.
Interpolate(v) ==
    IF IsNum(v) THEN NumText(v)
    ELSE IF IsText(v) THEN <<v.text>>
    ELSE IF IsStr(v) THEN v.str
    ELSE IF v = Null THEN <<"null">>
    ELSE IF v = NaN THEN <<"NaN">>
    ELSE IF v = Undef THEN <<"undefined">>
    ELSE <<"[object Object]">>

\* x || 'unknown' inside a template.
OrUnknown(v) == IF Truthy(v) THEN Interpolate(v) ELSE <<"unknown">>

----
\* displayEarthquakes.

NoData == [className |-> <<"no-data">>]

\* eq.hypocenter?.f
HypoField(eq, f) == IF IsObj(eq.hypocenter) THEN eq.hypocenter.obj[f] ELSE Undef

\* Building the card of a record raises a TypeError: toFixed of a magnitude that
\* is not a number, or replace of a time that is not a string.
CardThrows(item) ==
    LET eq == item.earthquake.obj
        mag == HypoField(eq, "magnitude")
    IN  \/ (mag # Undef /\ ~IsNum(mag))
        \/ ~(IsText(eq.time) \/ IsStr(eq.time))

\* dateStr.replace(/\//g, '/')
formatDateForDisplay(dateStr) == Interpolate(dateStr)

CardOf(item) ==
    LET eq == item.earthquake.obj
        maxScale == IF Truthy(eq.maxScale) THEN eq.maxScale ELSE N(-1)
        scaleClass == getScaleClass(maxScale)
        mag == HypoField(eq, "magnitude")
        magnitude == IF mag # Undef THEN <<"M">> \o ToFixed1(mag) ELSE <<"unknown">>
        hypocenterName == OrUnknown(HypoField(eq, "name"))
    IN  [className |-> <<"earthquake-item", "scale-", scaleClass>>,
         time |-> formatDateForDisplay(eq.time),
         scaleClass |-> scaleClass,
         scale |-> IF IsNum(maxScale) THEN ScaleLabel(maxScale) ELSE "unknown",
         name |-> hypocenterName,
         magnitude |-> magnitude]

\* Mutant of DisplayItems: a record whose card is already in the list is not
\* shown again.
RECURSIVE DisplayItemsOnce(_, _)
DisplayItemsOnce(rest, children) ==
    IF rest = <<>> THEN [threw |-> FALSE, children |-> children]
    ELSE IF ~Truthy(Head(rest).earthquake) THEN DisplayItemsOnce(Tail(rest), children)
    ELSE IF CardThrows(Head(rest)) THEN [threw |-> TRUE, children |-> children]
    ELSE IF \E k \in 1..Len(children) : children[k] = CardOf(Head(rest))
    THEN DisplayItemsOnce(Tail(rest), children)
    ELSE DisplayItemsOnce(Tail(rest), Append(children, CardOf(Head(rest))))

RECURSIVE DisplayItems(_, _)
DisplayItems(rest, children) ==
    IF rest = <<>> THEN [threw |-> FALSE, children |-> children]
    ELSE IF ~Truthy(Head(rest).earthquake) THEN DisplayItems(Tail(rest), children)
    ELSE IF CardThrows(Head(rest)) THEN [threw |-> TRUE, children |-> children]
    ELSE DisplayItems(Tail(rest), Append(children, CardOf(Head(rest))))

\* Mutant of displayEarthquakes: an empty list gets no placeholder.
displayEarthquakesNoPlaceholder(data) == DisplayItems(data, <<>>)

\* The children of the list element after displayEarthquakes(data), and whether
\* the call raised.
displayEarthquakes(data) ==
    IF data = <<>> THEN [threw |-> FALSE, children |-> <<NoData>>]
    ELSE DisplayItems(data, <<>>)

----
\* addEarthquakeMarkers: the marker data built before the batches.

\* The record is skipped: no earthquake, no hypocenter, or a coordinate that is
\* zero, NaN or null.
MarkerSkipped(item) ==
    \/ ~Truthy(item.earthquake)
    \/ ~Truthy(item.earthquake.obj.hypocenter)
    \/ LET hypo == item.earthquake.obj.hypocenter.obj
           lat == parseCoordinate(hypo.latitude)
           lng == parseCoordinate(hypo.longitude)
       IN  ~Truthy(lat) \/ ~Truthy(lng)

\* Building the popup raises a TypeError: toFixed of a magnitude that is not a
\* number, or toString of an absent maxScale.
MarkerThrows(item) ==
    LET eq == item.earthquake.obj
        hypo == eq.hypocenter.obj
    IN  \/ (hypo.magnitude # Undef /\ hypo.magnitude # N(-1) /\ ~IsNum(hypo.magnitude))
        \/ eq.maxScale \in {Undef, Null}

MarkerOf(item) ==
    LET eq == item.earthquake.obj
        hypo == eq.hypocenter.obj
        lat == parseCoordinate(hypo.latitude)
        lng == parseCoordinate(hypo.longitude)
        magnitude == IF hypo.magnitude # Undef /\ hypo.magnitude # N(-1)
                     THEN <<"M">> \o ToFixed1(hypo.magnitude) ELSE <<"unknown">>
        depth == IF hypo.depth # Undef /\ hypo.depth # N(-1)
                 THEN Interpolate(hypo.depth) \o <<"km">> ELSE <<"unknown">>
    IN  [lat |-> lat.num,
         lng |-> lng.num,
         color |-> getMarkerColor(eq.maxScale),
         popupContent |-> [
             name |-> OrUnknown(hypo.name),
             time |-> Interpolate(eq.time),
             scaleClass |-> getScaleClass(eq.maxScale),
             scale |-> IF IsNum(eq.maxScale) THEN ScaleLabel(eq.maxScale) ELSE "unknown",
             magnitude |-> magnitude,
             depth |-> depth]]

RECURSIVE BuildMarkers(_, _)
BuildMarkers(rest, markers) ==
    IF rest = <<>> THEN [threw |-> FALSE, markers |-> markers]
    ELSE IF MarkerSkipped(Head(rest)) THEN BuildMarkers(Tail(rest), markers)
    ELSE IF MarkerThrows(Head(rest)) THEN [threw |-> TRUE, markers |-> markers]
    ELSE BuildMarkers(Tail(rest), Append(markers, MarkerOf(Head(rest))))

\* The layers after clearLayers() and one pass over the marker data without a
\* wait, as the unbatched addEarthquakeMarkers inserts them.
OnePassLayers(markers) == <<>> \o markers

\* markers.slice(i, i + size), i counted from 0.
Slice(markers, i, size) ==
    SubSeq(markers, i + 1, IF i + size < Len(markers) THEN i + size ELSE Len(markers))

----
\* The map's viewport.

\* map.setView([36.5, 138.0], 5)
DefaultView == [kind |-> "default", south |-> 365, west |-> 1380, north |-> 365, east |-> 1380]

Min(S) == CHOOSE x \in S : \A y \in S : x <= y
Max(S) == CHOOSE x \in S : \A y \in S : x >= y

\* Mutant of FitView: the box is that of the first layer only.
FitViewFirst(layers) ==
    [kind |-> "fit", south |-> layers[1].lat, west |-> layers[1].lng,
     north |-> layers[1].lat, east |-> layers[1].lng]

\* map.fitBounds(markersLayer.getBounds(), ...) for a non-empty layer group.
FitView(layers) ==
    LET lats == {layers[k].lat : k \in 1..Len(layers)}
        lngs == {layers[k].lng : k \in 1..Len(layers)}
    IN  [kind |-> "fit", south |-> Min(lats), west |-> Min(lngs),
         north |-> Max(lats), east |-> Max(lngs)]

----
\* Error messages, as sequences of their pieces (written in ASCII).

ValidationMessage == <<"the start date must be a date before the end date">>
\* Mutant of StatusMessage: the status code is left out of the message.
StatusMessageNoCode(status) == <<"API connection failed">>

StatusMessage(status) == <<"API connection failed (status: ", ToString(status), ")">>
FetchFailed(cause) == <<"failed to fetch the data: ">> \o cause
TypeErrorMessage == <<"TypeError">>

\* What the transport can answer to fetch(): a rejection, or a response with a status.
Responses ==
    {[type |-> "reject", status |-> 0]}
        \cup {[type |-> "response", status |-> st] : st \in {200, 500}}

\* response.ok
Ok(r) == r.status \in 200..299

----
\* The date inputs.  new Date(input.value) is a day, or an Invalid Date (NaN).

DateValues == {Num(d) : d \in 1..MaxDate} \cup {NaN}

\* startDate > endDate
Gt(a, b) == IsNum(a) /\ IsNum(b) /\ a.num > b.num

----
\* State.

BatchSizes == (1..MaxBatch) \cup {BATCH_SIZE}

\* One invocation of loadEarthquakeData.  pc is where it waits ("fetch", "json",
\* "batch") or "done"; markers and i are the locals of addEarthquakeMarkers
\* across its waits; status is response.status (0 before a response).  Kept for
\* the record: result (how the call ended) and startLater (its start date was
\* later than its end date).
Call(pc, markers, i, result, startLater, status) ==
    [pc |-> pc, markers |-> markers, i |-> i, result |-> result,
     startLater |-> startLater, status |-> status]

\* A call that has returned keeps only how it ended.
Ended(result, startLater, status) == Call("done", <<>>, 0, result, startLater, status)

\* The page after init(): the map is created, the date inputs hold the default
\* week, and the page-load call of loadEarthquakeData has issued its request.
Init ==
    /\ loading = TRUE
    /\ fetchBtnDisabled = TRUE
    /\ error = [display |-> FALSE, textContent |-> <<>>, by |-> 0]
    /\ timers = <<>>
    /\ earthquakeList = <<>>
    /\ markersLayer = <<>>
    /\ mapView = DefaultView
    /\ calls = <<Call("fetch", <<>>, 0, "pending", FALSE, 0)>>
    /\ requests = 1
    /\ batchSize \in BatchSizes
    /\ arg = Undef
    /\ ret = Undef

----
\* Helpers of the handlers.

\* Mutant of ShowErrorTimers: showError sets no timeout.
ShowErrorNoTimeout(by) == timers

\* showError(message), called by call number `by`: the timers after it.
ShowErrorTimers(by) == Append(timers, by)

showError(message, by) ==
    /\ error' = [display |-> TRUE, textContent |-> message, by |-> by]
    /\ timers' = ShowErrorTimers(by)

setLoading(isLoading) ==
    /\ loading' = isLoading
    /\ fetchBtnDisabled' = isLoading

\* The list element after the catch block of loadEarthquakeData.
CatchList == <<>>

\* Mutant of Catch: setLoading(false) is not in a finally block and is skipped
\* when the try block raises.
CatchWithoutFinally(c, message, status) ==
    /\ showError(message, c)
    /\ earthquakeList' = CatchList
    /\ UNCHANGED <<loading, fetchBtnDisabled>>
    /\ calls' = [calls EXCEPT ![c] = Ended("error", calls[c].startLater, status)]

\* catch (err) { showError(err.message); earthquakeList.innerHTML = '' }
\* finally { setLoading(false) }
Catch(c, message, status) ==
    /\ showError(message, c)
    /\ earthquakeList' = CatchList
    /\ setLoading(FALSE)
    /\ calls' = [calls EXCEPT ![c] = Ended("error", calls[c].startLater, status)]

\* Mutant of FitAndFinish: getBounds / fitBounds are called without a try block,
\* and their failure ends the call in the catch branch of loadEarthquakeData.
FitAndFinishPropagates(c, layers) ==
    /\ setLoading(FALSE)
    /\ IF Len(layers) > 0
       THEN \E fitThrows \in BOOLEAN :
                IF fitThrows
                THEN /\ mapView' = mapView
                     /\ calls' = [calls EXCEPT ![c] =
                            Ended("error", calls[c].startLater, calls[c].status)]
                ELSE /\ mapView' = FitView(layers)
                     /\ calls' = [calls EXCEPT ![c] =
                            Ended("success", calls[c].startLater, calls[c].status)]
       ELSE /\ mapView' = mapView
            /\ calls' = [calls EXCEPT ![c] =
                   Ended("success", calls[c].startLater, calls[c].status)]

\* The end of addEarthquakeMarkers with `layers` in the group, then the finally
\* block.  getBounds / fitBounds belong to the map library: they may raise, and
\* the view is then reset.
FitAndFinish(c, layers) ==
    /\ IF Len(layers) > 0
       THEN \E fitThrows \in BOOLEAN :
                mapView' = IF fitThrows THEN DefaultView ELSE FitView(layers)
       ELSE mapView' = mapView
    /\ setLoading(FALSE)
    /\ calls' = [calls EXCEPT ![c] = Ended("success", calls[c].startLater, calls[c].status)]

----
\* Handlers.

\* Mutant of DatesRejected: the comparison is the wrong way round.
DatesRejectedSwapped(startDate, endDate) == Gt(endDate, startDate)

\* The start-date check of loadEarthquakeData.
DatesRejected(startDate, endDate) == Gt(startDate, endDate)

\* Mutant of RejectDates: the branch clears the list as the catch block does.
RejectDatesClearing(c) ==
    /\ showError(ValidationMessage, c)
    /\ earthquakeList' = <<>>
    /\ UNCHANGED <<loading, fetchBtnDisabled, markersLayer, mapView, requests, batchSize>>

\* The branch of loadEarthquakeData taken when the dates are rejected.
RejectDates(c) ==
    /\ showError(ValidationMessage, c)
    /\ UNCHANGED <<loading, fetchBtnDisabled, earthquakeList, markersLayer, mapView,
                   requests, batchSize>>

\* loadEarthquakeData up to its first await.
loadEarthquakeData(startDate, endDate) ==
    LET c == Len(calls) + 1
    IN  IF DatesRejected(startDate, endDate)
        THEN /\ RejectDates(c)
             /\ calls' = Append(calls, Ended("invalid", Gt(startDate, endDate), 0))
        ELSE /\ setLoading(TRUE)
             /\ error' = [error EXCEPT !.display = FALSE]
             /\ requests' = requests + 1
             /\ calls' = Append(calls, Call("fetch", <<>>, 0, "pending",
                                             Gt(startDate, endDate), 0))
             /\ UNCHANGED <<timers, earthquakeList, markersLayer, mapView, batchSize>>

\* A click on the fetch button; a disabled button delivers no click.
ClickFetch ==
    /\ ~fetchBtnDisabled
    /\ Len(calls) < MaxTriggers
    /\ \E startDate \in DateValues, endDate \in DateValues :
           loadEarthquakeData(startDate, endDate)
    /\ UNCHANGED <<arg, ret>>

\* Enter in the start-date, end-date or intensity control.
PressEnter ==
    /\ Len(calls) < MaxTriggers
    /\ \E startDate \in DateValues, endDate \in DateValues :
           loadEarthquakeData(startDate, endDate)
    /\ UNCHANGED <<arg, ret>>

\* Mutant of FetchSettles: a request that the transport rejects is issued again.
FetchSettlesRetries(c) ==
    /\ calls[c].pc = "fetch"
    /\ UNCHANGED <<arg, ret>>
    /\ \E r \in Responses :
        IF r.type = "reject" /\ requests <= MaxTriggers
        THEN /\ requests' = requests + 1
             /\ UNCHANGED <<loading, fetchBtnDisabled, error, timers, earthquakeList,
                            markersLayer, mapView, calls, batchSize>>
        ELSE IF ~Ok(r)
        THEN /\ Catch(c, FetchFailed(StatusMessage(r.status)), r.status)
             /\ UNCHANGED <<markersLayer, mapView, requests, batchSize>>
        ELSE /\ calls' = [calls EXCEPT ![c].pc = "json", ![c].status = r.status]
             /\ UNCHANGED <<loading, fetchBtnDisabled, error, timers, earthquakeList,
                            markersLayer, mapView, requests, batchSize>>

\* await fetch(apiUrl) settles.
FetchSettles(c) ==
    /\ calls[c].pc = "fetch"
    /\ UNCHANGED <<arg, ret>>
    /\ \E r \in Responses :
        IF r.type = "reject"
        THEN /\ Catch(c, FetchFailed(<<"Failed to fetch">>), 0)
             /\ UNCHANGED <<markersLayer, mapView, requests, batchSize>>
        ELSE IF ~Ok(r)
        THEN /\ Catch(c, FetchFailed(StatusMessage(r.status)), r.status)
             /\ UNCHANGED <<markersLayer, mapView, requests, batchSize>>
        ELSE /\ calls' = [calls EXCEPT ![c].pc = "json", ![c].status = r.status]
             /\ UNCHANGED <<loading, fetchBtnDisabled, error, timers, earthquakeList,
                            markersLayer, mapView, requests, batchSize>>

\* The data given to addEarthquakeMarkers when displayEarthquakes got `data`.
MapData(data) == data

\* displayEarthquakes(data); await addEarthquakeMarkers(data), up to the first
\* wait between batches or to the end.
Render(c, data) ==
    LET shown == displayEarthquakes(data)
        built == BuildMarkers(MapData(data), <<>>)
        first == Slice(built.markers, 0, batchSize)
    IN  IF shown.threw
        THEN /\ Catch(c, TypeErrorMessage, calls[c].status)
             /\ UNCHANGED <<markersLayer, mapView, requests, batchSize>>
        ELSE /\ UNCHANGED <<requests, batchSize>>
             /\ IF MapData(data) = <<>>
                THEN /\ earthquakeList' = shown.children
                     /\ markersLayer' = <<>>
                     /\ setLoading(FALSE)
                     /\ calls' = [calls EXCEPT ![c] =
                            Ended("success", calls[c].startLater, calls[c].status)]
                     /\ UNCHANGED <<error, timers, mapView>>
                ELSE IF built.threw
                THEN /\ Catch(c, TypeErrorMessage, calls[c].status)
                     /\ markersLayer' = <<>>
                     /\ UNCHANGED mapView
                ELSE /\ earthquakeList' = shown.children
                     /\ markersLayer' = first
                     /\ UNCHANGED <<error, timers>>
                     /\ IF batchSize < Len(built.markers)
                        THEN /\ calls' = [calls EXCEPT ![c] =
                                    Call("batch", built.markers, batchSize, "pending",
                                         calls[c].startLater, calls[c].status)]
                             /\ UNCHANGED <<loading, fetchBtnDisabled, mapView>>
                        ELSE FitAndFinish(c, first)

\* await response.json() rejects: the body is no JSON.
JsonRejects(c) ==
    /\ calls[c].pc = "json"
    /\ UNCHANGED <<arg, ret>>
    /\ Catch(c, FetchFailed(<<"SyntaxError">>), calls[c].status)
    /\ UNCHANGED <<markersLayer, mapView, requests, batchSize>>

\* await response.json() resolves with a record list.
JsonResolves(c) ==
    /\ calls[c].pc = "json"
    /\ UNCHANGED <<arg, ret>>
    /\ \E data \in DataLists : Render(c, data)

\* The 10 ms timer between two batches fires: the next batch is inserted.
BatchTimer(c) ==
    /\ calls[c].pc = "batch"
    /\ UNCHANGED <<arg, ret>>
    /\ LET i == calls[c].i
           layers == markersLayer \o Slice(calls[c].markers, i, batchSize)
       IN  /\ markersLayer' = layers
           /\ UNCHANGED <<error, timers, earthquakeList, requests, batchSize>>
           /\ IF i + batchSize < Len(calls[c].markers)
              THEN /\ calls' = [calls EXCEPT ![c].i = i + batchSize]
                   /\ UNCHANGED <<loading, fetchBtnDisabled, mapView>>
              ELSE FitAndFinish(c, layers)

\* The oldest dismissal timeout fires.
DismissTimer ==
    /\ timers # <<>>
    /\ error' = [error EXCEPT !.display = FALSE]
    /\ timers' = Tail(timers)
    /\ UNCHANGED <<loading, fetchBtnDisabled, earthquakeList, markersLayer, mapView,
                   calls, requests, batchSize, arg, ret>>

Next ==
    \/ ClickFetch
    \/ PressEnter
    \/ \E c \in 1..Len(calls) : FetchSettles(c)
    \/ \E c \in 1..Len(calls) : JsonRejects(c)
    \/ \E c \in 1..Len(calls) : JsonResolves(c)
    \/ \E c \in 1..Len(calls) : BatchTimer(c)
    \/ DismissTimer

Spec == Init /\ [][Next]_vars

\* A step of a call that is waiting: its request settles, its body is rejected,
\* or its batch timer fires.  JsonRejects(c) is enabled exactly when
\* JsonResolves(c) is, and either one ends the wait for the body.
Progress ==
    \E c \in 1..Len(calls) : FetchSettles(c) \/ JsonRejects(c) \/ BatchTimer(c)

\* The transport settles the requests and the event loop runs the timers: a
\* waiting call is not left waiting for ever, nor is a pending timeout.  Weak
\* fairness of Progress asks no more than that: a body that resolves disables
\* it as well as one that is rejected.
FairSpec == Spec /\ WF_vars(Progress) /\ WF_vars(DismissTimer)

----
\* The functions of the page examined on their own: the argument is drawn at the
\* start, one step applies a function to it.

\* The decimal digits of a natural number.
RECURSIVE IntChars(_)
IntChars(n) ==
    IF n < 10 THEN <<DigitChars[n + 1]>>
    ELSE IntChars(n \div 10) \o <<DigitChars[(n % 10) + 1]>>

\* A magnitude of m tenths written with one decimal: 383 is "38.3".
DecChars(m) == IntChars(m \div 10) \o <<".", DigitChars[(m % 10) + 1]>>

\* The ways the feed can give a coordinate of m tenths of a degree: a number, a
\* string with a compass letter in front (upper or lower case) or with none,
\* or nothing.
CoordForms == {"number", "negative", "N", "S", "E", "W", "n", "s", "e", "w", "", "absent"}

CoordValue(form, m) ==
    CASE form = "number" -> Num(m)
      [] form = "negative" -> Num(-m)
      [] form = "absent" -> Undef
      [] form = "" -> Str(DecChars(m))
      [] OTHER -> Str(<<form>> \o DecChars(m))

CoordArgs ==
    {[kind |-> "coord", form |-> f, mag |-> m, value |-> CoordValue(f, m)] :
        f \in CoordForms, m \in 0..(10 * MaxDeg + 9)}

\* Intensity codes, in tenths, the values in between included.
CodeArgs == {[kind |-> "code", value |-> Num(k)] : k \in (-10)..(10 * MaxCode)}

\* Records whose name, magnitude, depth and intensity code vary; the
\* coordinates are those of the feed documentation's example.
FieldRecords ==
    {Rec(Text("2025/01/15 09:30:00"), name, D(37, 5), D(137, 3), mag, depth, code) :
        name \in {Text("Noto"), Text(""), Undef},
        mag \in {Undef, N(-1), N(0), D(5, 8)},
        depth \in {Undef, N(-1), N(0), N(10)},
        code \in {N(k) : k \in (-1)..MaxCode} \cup {Undef}}

\* The hypocenter has no name, or an empty one; the item has no earthquake.
RecNoName ==
    Rec(Text("2025/01/11 08:00:00"), Undef, D(34, 7), D(135, 5), D(3, 0), N(40), N(20))
RecEmptyName ==
    Rec(Text("2025/01/10 17:45:00"), Text(""), D(43, 1), D(141, 3), D(3, 6), N(30), N(20))
RecNoQuake == [earthquake |-> Undef]

ListRecords == {RecNoto, RecTokyo, RecNoCoord, RecNoName, RecEmptyName, RecNoQuake}

RECURSIVE SeqsUpTo(_, _)
SeqsUpTo(S, n) ==
    IF n = 0 THEN {<<>>}
    ELSE LET shorter == SeqsUpTo(S, n - 1)
         IN  shorter \cup {Append(q, x) : q \in shorter, x \in S}

ListArgs ==
    {[kind |-> "list", data |-> data] :
        data \in SeqsUpTo(ListRecords, MaxLen) \cup {<<r>> : r \in FieldRecords}}

\* new Date(input.value) for a date input: the time value of year y, month m,
\* day d, counted in days of a calendar whose months all have 31 days; NaN
\* (Invalid Date) for an input that is empty or does not parse.
DateAt(y, m, d) == Num(372 * y + 31 * (m - 1) + (d - 1))

getFullYear(date) == IF IsNum(date) THEN Num(date.num \div 372) ELSE NaN
\* getMonth() counts from 0.
getMonth(date) == IF IsNum(date) THEN Num((date.num % 372) \div 31) ELSE NaN
getDate(date) == IF IsNum(date) THEN Num((date.num % 31) + 1) ELSE NaN

\* x + 1
PlusOne(v) == IF IsNum(v) THEN Num(v.num + 1) ELSE NaN

\* String(x) for a whole number x that is not negative, or NaN.
StringOf(v) == IF IsNum(v) THEN IntChars(v.num) ELSE <<"N", "a", "N">>

\* s.padStart(2, '0') for a string s that is not empty.
PadStart2(cs) == IF Len(cs) < 2 THEN <<"0">> \o cs ELSE cs

formatDateForAPI(date) ==
    LET year == StringOf(getFullYear(date))
        month == PadStart2(StringOf(PlusOne(getMonth(date))))
        day == PadStart2(StringOf(getDate(date)))
    IN  year \o month \o day

\* What the two date inputs can hold.
DateContents == {DateAt(2025, m, d) : m \in 1..12, d \in {1, 9, 10, 31}} \cup {NaN}

DateArgs == {[kind |-> "dates", start |-> a, end |-> b] : a, b \in DateContents}

\* The script is loaded and init() has not run: no call, no request.
FnInit ==
    /\ loading = FALSE
    /\ fetchBtnDisabled = FALSE
    /\ error = [display |-> FALSE, textContent |-> <<>>, by |-> 0]
    /\ timers = <<>>
    /\ earthquakeList = <<>>
    /\ markersLayer = <<>>
    /\ mapView = DefaultView
    /\ calls = <<>>
    /\ requests = 0
    /\ batchSize = BATCH_SIZE
    /\ arg \in CoordArgs \cup CodeArgs \cup ListArgs \cup DateArgs
    /\ ret = Undef

\* One function is applied to the argument; the page is not touched.
Apply(kind, fn, value) ==
    /\ ret = Undef
    /\ arg.kind = kind
    /\ ret' = [fn |-> fn, value |-> value]
    /\ UNCHANGED <<loading, fetchBtnDisabled, error, timers, earthquakeList,
                   markersLayer, mapView, calls, requests, batchSize, arg>>

ApplyParseCoordinate ==
    Apply("coord", "parseCoordinate", parseCoordinate(arg.value))

ApplyGetScaleClass ==
    Apply("code", "getScaleClass", getScaleClass(arg.value))

ApplyGetMarkerColor ==
    Apply("code", "getMarkerColor", getMarkerColor(arg.value))

ApplyDisplayEarthquakes ==
    Apply("list", "displayEarthquakes", displayEarthquakes(arg.data))

\* The marker data addEarthquakeMarkers builds for the list.
ApplyBuildMarkers ==
    Apply("list", "addEarthquakeMarkers", BuildMarkers(arg.data, <<>>))

\* loadEarthquakeData up to the request: the gate, then the two dates of the
\* query string.
ApplyLoadEarthquakeData ==
    Apply("dates", "loadEarthquakeData",
          IF DatesRejected(arg.start, arg.end)
          THEN [rejected |-> TRUE, since |-> <<>>, until |-> <<>>]
          ELSE [rejected |-> FALSE,
                since |-> formatDateForAPI(arg.start),
                until |-> formatDateForAPI(arg.end)])

FnNext ==
    \/ ApplyLoadEarthquakeData
    \/ ApplyParseCoordinate
    \/ ApplyGetScaleClass
    \/ ApplyGetMarkerColor
    \/ ApplyDisplayEarthquakes
    \/ ApplyBuildMarkers

FnSpec == FnInit /\ [][FnNext]_vars

\* Function fn has been applied.
Applied(fn) == ret # Undef /\ ret.fn = fn

----
\* Claims.

\* A step in which loadEarthquakeData is invoked with a start date later than
\* the end date.
LateTrigger == Len(calls') > Len(calls) /\ calls'[Len(calls')].startLater

\* Call c returns in this step, with the given result.
Returns(c, result) == calls[c].pc # "done" /\ calls'[c].result = result

\* C1: a trigger whose start date is later than its end date shows the
\* validation message, issues no feed request and never enters Loading.
C1_ValidationGate ==
    [][LateTrigger =>
        /\ requests' = requests
        /\ calls'[Len(calls')].pc = "done"
        /\ loading' = loading
        /\ fetchBtnDisabled' = fetchBtnDisabled
        /\ error'.display
        /\ error'.textContent = ValidationMessage]_vars

C1_Witness ==
    \E c \in 1..Len(calls) :
        /\ calls[c].startLater
        /\ calls[c].result = "invalid"
        /\ error.display
        /\ error.by = c
        /\ requests < Len(calls)

\* C2: every invocation, whatever its outcome, is followed by a state in which
\* it has returned, the button is enabled and the loading indicator is hidden.
C2_ReturnsToIdle ==
    \A c \in 1..MaxTriggers :
        (c <= Len(calls)) ~>
            (c <= Len(calls) /\ calls[c].pc = "done" /\ ~loading /\ ~fetchBtnDisabled)

C2_Witness ==
    /\ \E c \in 1..Len(calls) : calls[c].result = "error"
    /\ \E c \in 1..Len(calls) : calls[c].result = "success"
    /\ \A c \in 1..Len(calls) : calls[c].pc = "done"
    /\ ~loading
    /\ ~fetchBtnDisabled

\* C3: while a call is in progress (request issued, rendering and all marker
\* batches not yet finished or failed) the button is disabled and the loading
\* indicator is shown.
C3_LoadingWhileInProgress ==
    \A c \in 1..Len(calls) : calls[c].pc # "done" => (fetchBtnDisabled /\ loading)

\* C4: when the feed answers a call with a non-success status S, the call ends
\* in error in that step, the message shown contains S and the list is empty.
C4_StatusError ==
    [][\A c \in 1..Len(calls) :
        (calls[c].pc = "fetch" /\ calls'[c].status # 0 /\ calls'[c].status \notin 200..299) =>
            /\ calls'[c].result = "error"
            /\ error'.display
            /\ Includes(error'.textContent, ToString(calls'[c].status))
            /\ earthquakeList' = <<>>]_vars

C4_Witness ==
    \E c \in 1..Len(calls) :
        /\ calls[c].status = 500
        /\ calls[c].result = "error"
        /\ error.display
        /\ error.by = c
        /\ Includes(error.textContent, "500")
        /\ earthquakeList = <<>>
        /\ markersLayer # <<>>

\* C5: a call that ends in its catch branch has not changed the marker layers.
\* A call that fails does so in the step in which its request or its body
\* settles, so this is the claim for that step; what other calls plot in the
\* meantime is left aside.
C5_FailedCycleKeepsMarkers ==
    [][\A c \in 1..Len(calls) :
        Returns(c, "error") => markersLayer' = markersLayer]_vars

\* C6 as claimed: a rejected date range clears the list, leaves the markers
\* and shows a transient message.
C6_ValidationClearsList ==
    [][LateTrigger =>
        /\ earthquakeList' = <<>>
        /\ markersLayer' = markersLayer
        /\ error'.display
        /\ timers' = Append(timers, Len(calls'))]_vars

\* C6 as amended: a rejected date range leaves the list, the markers and the
\* viewport as they were and shows the validation message with its dismissal
\* timeout.
C6_ValidationKeepsList ==
    [][LateTrigger =>
        /\ earthquakeList' = earthquakeList
        /\ markersLayer' = markersLayer
        /\ mapView' = mapView
        /\ error'.display
        /\ error'.textContent = ValidationMessage
        /\ timers' = Append(timers, Len(calls'))]_vars

C6_Witness ==
    \E c \in 1..Len(calls) :
        /\ calls[c].startLater
        /\ calls[c].result = "invalid"
        /\ error.display
        /\ error.by = c
        /\ Len(earthquakeList) > 1
        /\ markersLayer # <<>>

\* C7: an error message that is shown is hidden again, with no user action
\* needed.
C7_ErrorDismissed == error.display ~> ~error.display

\* The last invocation was rejected, nothing was triggered after it, and its
\* message is hidden again.
C7_Witness ==
    /\ calls[Len(calls)].result = "invalid"
    /\ error.by = Len(calls)
    /\ ~error.display
    /\ timers = <<>>

\* C8: a call that ends in success gave one record list to both renderers, and
\* when it returns no error shown by an earlier call is visible.
C8_SuccessHandsAndClears ==
    [][\A c \in 1..Len(calls) :
        Returns(c, "success") =>
            /\ calls[c].pc = "json" =>
                \E data \in DataLists :
                    /\ earthquakeList' = displayEarthquakes(data).children
                    /\ markersLayer' = BuildMarkers(data, <<>>).markers
            /\ error'.display => error'.by >= c]_vars

\* C9: when addEarthquakeMarkers(E) completes, the marker layers are exactly
\* the markers of the plottable records of E, none for an empty E.
C9_ReplotExact ==
    [][\A c \in 1..Len(calls) :
        Returns(c, "success") =>
            IF calls[c].pc = "batch"
            THEN markersLayer' = calls[c].markers
            ELSE \E data \in DataLists :
                    /\ earthquakeList' = displayEarthquakes(data).children
                    /\ markersLayer' = BuildMarkers(data, <<>>).markers
                    /\ data = <<>> => markersLayer' = <<>>]_vars

\* C10: when a batched insertion has inserted its last batch, the marker layers
\* are those of one pass over the same marker data, for every batch size.
C10_BatchedEqualsOnePass ==
    [][\A c \in 1..Len(calls) :
        (calls[c].pc = "batch" /\ calls'[c].pc = "done") =>
            markersLayer' = OnePassLayers(calls[c].markers)]_vars

\* No record of data gets a marker.
NoValidCoords(data) == \A i \in 1..Len(data) : MarkerSkipped(data[i])

\* C11: a call that plots a record list in which no record has valid
\* coordinates (the empty list included) ends with zero markers and with the
\* default viewport.
C11_NoMarkersDefaultView ==
    [][\A c \in 1..Len(calls) :
        (Returns(c, "success") /\ calls[c].pc = "json") =>
            \E data \in DataLists :
                /\ earthquakeList' = displayEarthquakes(data).children
                /\ NoValidCoords(data) =>
                        (markersLayer' = <<>> /\ mapView' = DefaultView)]_vars

\* Call c places the last of its markers in this step: its last batch, or all
\* of them at once into an empty layer group.
PlacesLast(c) ==
    /\ calls[c].pc # "done"
    /\ calls'[c].pc = "done"
    /\ \/ calls[c].pc = "batch"
       \/ calls[c].pc = "json" /\ markersLayer = <<>> /\ markersLayer' # <<>>

\* C12: when a call has placed its markers and the viewport is not fitted to
\* them (getBounds or fitBounds failed), the viewport is the default one, the
\* call ends as a success, no error is shown by the step, and the list and the
\* markers stay.
C12_FitFailureRecovered ==
    [][\A c \in 1..Len(calls) :
        (PlacesLast(c) /\ mapView' # FitView(markersLayer')) =>
            /\ mapView' = DefaultView
            /\ calls'[c].result = "success"
            /\ error' = error
            /\ timers' = timers
            /\ markersLayer' # <<>>
            /\ IF calls[c].pc = "batch"
               THEN /\ earthquakeList' = earthquakeList
                    /\ markersLayer' =
                           markersLayer \o Slice(calls[c].markers, calls[c].i, batchSize)
               ELSE earthquakeList' # <<>>]_vars

\* Every call has returned, the last markers placed are still there, and the
\* viewport is the default one: the fit after them failed.
C12_Witness ==
    /\ \A c \in 1..Len(calls) : calls[c].pc = "done"
    /\ calls[Len(calls)].result = "success"
    /\ Len(markersLayer) > 1
    /\ mapView = DefaultView
    /\ ~error.display
    /\ Len(earthquakeList) > 1

\* The number of records of data that get a marker.
ValidCount(data) == Cardinality({i \in 1..Len(data) : ~MarkerSkipped(data[i])})

\* C13: when a call ends in success, every record it received has a card, and
\* the markers on the map are as many as its records with a hypocenter whose
\* coordinates are both valid and non-zero.
C13_MarkersAreValidRecords ==
    [][\A c \in 1..Len(calls) :
        Returns(c, "success") =>
            IF calls[c].pc = "batch"
            THEN Len(markersLayer') = Len(calls[c].markers)
            ELSE \E data \in DataLists :
                    /\ earthquakeList' = displayEarthquakes(data).children
                    /\ data # <<>> => Len(earthquakeList') = Len(data)
                    /\ Len(markersLayer') = ValidCount(data)]_vars

\* The record has a hypocenter name that is not empty.
Named(item) ==
    Truthy(item.earthquake) /\ Truthy(HypoField(item.earthquake.obj, "name"))

NamedCount(data) == Cardinality({i \in 1..Len(data) : Named(data[i])})

\* C14: the list shows as many events as the response has records with a
\* hypocenter name that is not empty; a record without one is left out.
C14_NamelessExcluded ==
    (Applied("displayEarthquakes") /\ arg.data # <<>> /\ ~ret.value.threw) =>
        Len(ret.value.children) = NamedCount(arg.data)

\* The argument is a list of one record with an earthquake descriptor.
OneRecord == arg.kind = "list" /\ Len(arg.data) = 1 /\ Truthy(arg.data[1].earthquake)

\* The magnitude text of a record whose magnitude is absent, -1 or a number.
ShownMagnitude(mag) ==
    IF mag \in {Undef, N(-1)} THEN <<"unknown">> ELSE <<"M">> \o ToFixed1(mag)

\* C15: the card and the popup of a record show its magnitude as unknown when
\* it is -1 and with one decimal otherwise, and the popup shows a depth of -1
\* as unknown.
C15_MinusOneIsUnknown ==
    OneRecord =>
        LET eq == arg.data[1].earthquake.obj
            mag == HypoField(eq, "magnitude")
            depth == HypoField(eq, "depth")
        IN  /\ (Applied("displayEarthquakes") /\ Len(ret.value.children) = 1) =>
                    ret.value.children[1].magnitude = ShownMagnitude(mag)
            /\ (Applied("addEarthquakeMarkers") /\ Len(ret.value.markers) = 1) =>
                    /\ ret.value.markers[1].popupContent.magnitude = ShownMagnitude(mag)
                    /\ depth = N(-1) =>
                           ret.value.markers[1].popupContent.depth = <<"unknown">>

\* The records of data with an earthquake descriptor, in the order of data.
Kept(data) == SelectSeq(data, LAMBDA item : Truthy(item.earthquake))

\* C16: the cards are those of the records of the response, one card for each
\* record, in the order of the response; equal records give equal cards, one
\* each.
C16_OrderKeptNoDedup ==
    (Applied("displayEarthquakes") /\ arg.data # <<>> /\ ~ret.value.threw) =>
        LET kept == Kept(arg.data)
        IN  /\ Len(ret.value.children) = Len(kept)
            /\ \A i \in 1..Len(kept) : ret.value.children[i] = CardOf(kept[i])

C16_Witness ==
    /\ Applied("displayEarthquakes")
    /\ arg.data = <<RecNoto, RecNoto, RecTokyo>>
    /\ Len(ret.value.children) = 3
    /\ ret.value.children[1] = ret.value.children[2]
    /\ ret.value.children[2].name = <<"Noto">>
    /\ ret.value.children[3].name = <<"Tokyo Bay">>

\* The label of an intensity code: that of the table for a code of the table,
\* unknown for any other code and for no code.
LabelOf(code) ==
    IF IsNum(code) /\ code.num \in DOMAIN scaleMap THEN scaleMap[code.num] ELSE "unknown"

\* C17: the card of a record and the popup of a plottable record carry the
\* label of the record's intensity code.
C17_LabelOfCode ==
    OneRecord =>
        LET code == arg.data[1].earthquake.obj.maxScale
        IN  /\ Applied("displayEarthquakes") =>
                    /\ ~ret.value.threw
                    /\ ret.value.children[1].scale = LabelOf(code)
            /\ (Applied("addEarthquakeMarkers") /\ ~MarkerSkipped(arg.data[1])) =>
                    /\ ~ret.value.threw
                    /\ Len(ret.value.markers) = 1
                    /\ ret.value.markers[1].popupContent.scale = LabelOf(code)

\* C18: for a numeric code, getScaleClass is high from 50, medium from 30 to
\* below 50 and low below 30, and getMarkerColor is the colour of that bucket.
C18_BucketAndColour ==
    /\ Applied("getScaleClass") =>
            /\ ret.value \in {"high", "medium", "low"}
            /\ ret.value = "high" <=> arg.value.num >= 500
            /\ ret.value = "medium" <=> (300 <= arg.value.num /\ arg.value.num < 500)
    /\ Applied("getMarkerColor") =>
            ret.value = CASE getScaleClass(arg.value) = "high" -> "#d32f2f"
                          [] getScaleClass(arg.value) = "medium" -> "#f57c00"
                          [] getScaleClass(arg.value) = "low" -> "#388e3c"

C18_Witness ==
    /\ Applied("getMarkerColor")
    /\ arg.value = N(45)
    /\ ret.value = "#f57c00"

\* C19: parseCoordinate returns a number as it is, the magnitude of a string
\* with N or E in front, the negated magnitude of a string with S or W in
\* front, and null for an absent value.
C19_SignedDegrees ==
    Applied("parseCoordinate") =>
        /\ arg.form \in {"number", "negative"} => ret.value = arg.value
        /\ arg.form \in {"N", "E"} => ret.value = Num(arg.mag)
        /\ arg.form \in {"S", "W"} => ret.value = Num(-arg.mag)
        /\ arg.form = "absent" => ret.value = Null

C19_Witness ==
    /\ Applied("parseCoordinate")
    /\ arg.value = Str(<<"W", "1", "4", "1", ".", "7">>)
    /\ ret.value = Num(-1417)

\* C20: a string with a lower-case compass letter in front parses as the one
\* with the upper-case letter does.
C20_LowerCaseCompass ==
    Applied("parseCoordinate") =>
        /\ arg.form \in {"n", "e"} => ret.value = Num(arg.mag)
        /\ arg.form \in {"s", "w"} => ret.value = Num(-arg.mag)

\* A call is added in this step and it issues a request.
StartsRequest == Len(calls') > Len(calls) /\ calls'[Len(calls')].result # "invalid"

\* C21: a trigger that passes the validation gate issues one request and no
\* other step issues any; a request that the transport rejects or that is
\* answered with a non-success status ends its call at once, with one error
\* message that carries the cause.
C21_OneRequestNoRetry ==
    [][/\ requests' = requests + (IF StartsRequest THEN 1 ELSE 0)
       /\ \A c \in 1..Len(calls) :
            (calls[c].pc = "fetch" /\ calls'[c].pc # "json") =>
                \/ calls'[c] = calls[c]
                \/ /\ calls'[c].pc = "done"
                   /\ calls'[c].result = "error"
                   /\ error'.display
                   /\ error'.by = c
                   /\ error'.textContent \in
                          {FetchFailed(<<"Failed to fetch">>),
                           FetchFailed(StatusMessage(calls'[c].status))}
                   /\ timers' = Append(timers, c)]_vars

\* Two triggers, two requests: one rejected by the transport, one answered 500.
C21_Witness ==
    /\ Len(calls) = 2
    /\ requests = 2
    /\ calls[1].result = "error" /\ calls[1].status = 0
    /\ calls[2].result = "error" /\ calls[2].status = 500
    /\ Len(timers) = 2
    /\ error.display

\* The list element shows the cards of a non-empty response.
ShowsCards(children) ==
    \E data \in DataLists \ {<<>>} : children = displayEarthquakes(data).children

\* C22: when a call ends in success and the list shows the cards of no
\* response (the result was empty), the list holds the no-data placeholder,
\* once, and nothing else.
C22_EmptyShowsPlaceholder ==
    [][\A c \in 1..Len(calls) :
        (Returns(c, "success") /\ calls[c].pc = "json" /\ ~ShowsCards(earthquakeList')) =>
            /\ earthquakeList' = <<NoData>>
            /\ markersLayer' = <<>>]_vars

C22_Witness ==
    /\ \A c \in 1..Len(calls) : calls[c].pc = "done"
    /\ calls[Len(calls)].result = "success"
    /\ earthquakeList = <<NoData>>
    /\ markersLayer = <<>>
    /\ ~error.display

\* Eight characters, all of them digits.
IsYYYYMMDD(cs) == Len(cs) = 8 /\ \A i \in 1..Len(cs) : IsDigit(cs[i])

\* C23: whatever the date inputs hold, a request that is issued carries
\* since_date and until_date as eight digits.
C23_DatesAreEightDigits ==
    (Applied("loadEarthquakeData") /\ ~ret.value.rejected) =>
        /\ IsYYYYMMDD(ret.value.since)
        /\ IsYYYYMMDD(ret.value.until)

\* The calls that have not returned.
InProgress == {c \in 1..Len(calls) : calls[c].pc # "done"}

\* C24: at most one call of loadEarthquakeData is in progress.
C24_OneCycleAtATime == Cardinality(InProgress) <= 1

\* Every layer lies in the box of the view.
Covers(view, layers) ==
    \A k \in 1..Len(layers) :
        /\ view.south <= layers[k].lat /\ layers[k].lat <= view.north
        /\ view.west <= layers[k].lng /\ layers[k].lng <= view.east

\* C25: the viewport changes only in the step in which a call has inserted the
\* last of its markers and returns, never between two batches, and a viewport
\* fitted in that step covers every marker of the layer group.
C25_FitAfterAllMarkers ==
    [][/\ mapView' # mapView =>
            \E c \in 1..Len(calls) :
                /\ calls[c].pc \in {"json", "batch"}
                /\ calls'[c].pc = "done"
                /\ calls'[c].result = "success"
                /\ markersLayer' # <<>>
       /\ \A c \in 1..Len(calls) :
            (Returns(c, "success") /\ markersLayer' # <<>> /\ mapView'.kind = "fit") =>
                Covers(mapView', markersLayer')]_vars

\* A call placed its markers in more than one batch and the viewport is fitted
\* to two markers at different places.
C25_Witness ==
    /\ \A c \in 1..Len(calls) : calls[c].pc = "done"
    /\ calls[Len(calls)].result = "success"
    /\ batchSize < Len(markersLayer)
    /\ mapView.kind = "fit"
    /\ mapView.south < mapView.north
    /\ Covers(mapView, markersLayer)

\* The list and the markers are those of one response.
Coherent ==
    \E data \in DataLists :
        /\ earthquakeList = displayEarthquakes(data).children
        /\ markersLayer = BuildMarkers(data, <<>>).markers

\* C26: when no call is in progress and every call that issued a request has
\* succeeded, the list and the markers are those of one response.
C26_ListMapCoherent ==
    (/\ InProgress = {}
     /\ \A c \in 1..Len(calls) : calls[c].result \in {"success", "invalid"}
     /\ \E c \in 1..Len(calls) : calls[c].result = "success") => Coherent

\* C27: a dismissal timeout that hides the error message is the one that was
\* set when that message was shown.
C27_TimerHidesOwnMessage ==
    [][(/\ timers # <<>>
        /\ timers' = Tail(timers)
        /\ error.display
        /\ ~error'.display) => Head(timers) = error.by]_vars

\* C28: a call whose response body is a record list ends in success: once the
\* response has arrived the only error is a body that is no JSON, and the
\* list is cleared by nothing else.
C28_RenderingIsTotal ==
    [][\A c \in 1..Len(calls) :
        (calls[c].pc = "json" /\ calls'[c].result = "error") =>
            error'.textContent = FetchFailed(<<"SyntaxError">>)]_vars

====
